---- MODULE Spec2Model ----
(***************************************************************************)
(* Model of src/main.py: the SDS metadata pipeline                         *)
(*   paginate -> extract -> download -> validate.                          *)
(*                                                                         *)
(* Strings are sequences of one-character strings.  A directory is a       *)
(* function from the file names present in it to their content.            *)
(***************************************************************************)
EXTENDS Integers, Sequences, FiniteSets, TLC

VARIABLES
    pc,           \* position of main: "page", "links", "list", "validate", "done", "crashed"
    page_number,  \* main's loop variable of range(1, 6)
    pdf_urls,     \* the links extracted from the current page
    idx,          \* 1-based position of the inner for loop in pdf_urls
    disk,         \* ./PDFs: file name -> content
    pdf_files,    \* the listed files the validation loop has not visited yet
    snapshot,     \* observation: disk as it was when validation started
    last,         \* observation: what the last step did (request issued, delay slept, outcome)
    fetched,      \* observation: the page numbers passed to fetch_api_data, in call order
    calls,        \* observation: the links passed to download_pdf_file for the current page
    written,      \* observation: file name -> number of downloads completed in this run
    safe_names,   \* link -> the file name sanitize_filename gives it (a pure function, tabulated)
    input,        \* unit harness: the string under test
    out,          \* unit harness: sanitize_filename(input), once pc = "sanitized"
    again,        \* unit harness: sanitize_filename(out), once pc = "resanitized"
    dl            \* unit harness: the result of download_pdf_file(input, ...), once pc = "called"

vars == <<pc, page_number, pdf_urls, idx, disk, pdf_files, snapshot, last,
          fetched, calls, written, safe_names, input, out, again, dl>>

----------------------------------------------------------------------------
(* Bounds of the model *)

\* the most pieces an input string of the unit harness is built from
MaxPieces == 3

\* the most items in one page's response payload
MaxItems == 2

(* Program constants *)

\* range(1, 6): the last page fetched
LastPage == 5

\* time.sleep(10) after a failed page
PageDelay == 10

\* time.sleep(30) after a link whose download raised
LinkDelay == 30

----------------------------------------------------------------------------
(* Characters *)

UPPER == <<"A","B","C","D","E","F","G","H","I","J","K","L","M",
           "N","O","P","Q","R","S","T","U","V","W","X","Y","Z">>
LOWER == <<"a","b","c","d","e","f","g","h","i","j","k","l","m",
           "n","o","p","q","r","s","t","u","v","w","x","y","z">>
DIGITS == <<"0","1","2","3","4","5","6","7","8","9">>

Range(s) == { s[i] : i \in DOMAIN s }

IsUpper(c) == c \in Range(UPPER)
IsLower(c) == c \in Range(LOWER)
IsDigit(c) == c \in Range(DIGITS)
IsAlnum(c) == IsUpper(c) \/ IsLower(c) \/ IsDigit(c)

\* the decoder's replacement character for a byte that is not valid UTF-8
REPLACEMENT == "U+FFFD"
\* any ASCII character the model does not name (control characters, other symbols)
OTHER_ASCII == "SYM"

IndexOf(s, c) == CHOOSE i \in DOMAIN s : s[i] = c

\* str.lower() on one character
char_lower(c) == IF IsUpper(c) THEN LOWER[IndexOf(UPPER, c)] ELSE c

\* variant: the name is not lowercased
str_lower_identity(s) == s

\* str.lower()
str_lower(s) == [i \in DOMAIN s |-> char_lower(s[i])]

\* value of a hexadecimal digit, -1 for any other character
HexVal(c) ==
    IF IsDigit(c) THEN IndexOf(DIGITS, c) - 1
    ELSE IF IsUpper(c) /\ IndexOf(UPPER, c) <= 6 THEN 9 + IndexOf(UPPER, c)
    ELSE IF IsLower(c) /\ IndexOf(LOWER, c) <= 6 THEN 9 + IndexOf(LOWER, c)
    ELSE -1

\* bytes([b]).decode("utf-8", "replace") for a byte that stands alone: the inputs
\* of this model hold no hexadecimal digit 8..B, so no continuation byte
\* (0x80..0xBF) is ever decoded and every byte >= 0x80 is an invalid sequence
Chr(b) ==
    IF b >= 128 THEN REPLACEMENT
    ELSE IF b >= 48 /\ b <= 57 THEN DIGITS[b - 47]
    ELSE IF b >= 65 /\ b <= 90 THEN UPPER[b - 64]
    ELSE IF b >= 97 /\ b <= 122 THEN LOWER[b - 96]
    ELSE CASE b = 32 -> " "
           [] b = 34 -> "\""
           [] b = 35 -> "#"
           [] b = 37 -> "%"
           [] b = 45 -> "-"
           [] b = 46 -> "."
           [] b = 47 -> "/"
           [] b = 58 -> ":"
           [] b = 59 -> ";"
           [] b = 61 -> "="
           [] b = 63 -> "?"
           [] b = 95 -> "_"
           [] OTHER -> OTHER_ASCII

----------------------------------------------------------------------------
(* String helpers of the standard library, as sanitize_filename and          *)
(* download_pdf_file use them                                              *)

\* str.find(c): the first index of c in s, 0 when absent (1-based)
Find(s, c) ==
    IF \E i \in DOMAIN s : s[i] = c
    THEN CHOOSE i \in DOMAIN s : s[i] = c /\ \A j \in 1..(i - 1) : s[j] # c
    ELSE 0

\* str.rfind(c): the last index of c in s, 0 when absent (1-based)
RFind(s, c) ==
    IF \E i \in DOMAIN s : s[i] = c
    THEN CHOOSE i \in DOMAIN s : s[i] = c /\ \A j \in (i + 1)..Len(s) : s[j] # c
    ELSE 0

\* the first index at or after `from` holding a character of cs, Len(s)+1 when none
FindAny(s, cs, from) ==
    IF \E i \in from..Len(s) : s[i] \in cs
    THEN CHOOSE i \in from..Len(s) : s[i] \in cs /\ \A j \in from..(i - 1) : s[j] \notin cs
    ELSE Len(s) + 1

\* str.endswith
endswith(s, suffix) ==
    /\ Len(s) >= Len(suffix)
    /\ SubSeq(s, Len(s) - Len(suffix) + 1, Len(s)) = suffix

RECURSIVE unquote(_)
\* urllib.parse.unquote: %XX with two hexadecimal digits becomes the decoded
\* byte, any other % is kept as it is
unquote(s) ==
    IF s = <<>> THEN <<>>
    ELSE IF s[1] = "%" /\ Len(s) >= 3 /\ HexVal(s[2]) >= 0 /\ HexVal(s[3]) >= 0
         THEN <<Chr(16 * HexVal(s[2]) + HexVal(s[3]))>> \o unquote(SubSeq(s, 4, Len(s)))
         ELSE <<s[1]>> \o unquote(Tail(s))

\* os.path.basename (posix): what follows the last "/"
basename(p) == SubSeq(p, RFind(p, "/") + 1, Len(p))

\* variant: the extension is not split off
splitext_none(p) == <<p, <<>>>>

\* os.path.splitext (posix): <<root, ext>>; the extension starts at the last dot
\* of the last path component, unless only dots precede it there
splitext(p) ==
    LET sepIndex == RFind(p, "/")
        dotIndex == RFind(p, ".")
    IN  IF dotIndex > sepIndex
           /\ \E k \in (sepIndex + 1)..(dotIndex - 1) : p[k] # "."
        THEN <<SubSeq(p, 1, dotIndex - 1), SubSeq(p, dotIndex, Len(p))>>
        ELSE <<p, <<>>>>

\* re.sub(r"[^A-Za-z0-9_]", "_", base_name)
replace_unsafe(s) ==
    [i \in DOMAIN s |-> IF IsAlnum(s[i]) \/ s[i] = "_" THEN s[i] ELSE "_"]

RECURSIVE collapse_underscores(_)
\* re.sub(r"_+", "_", safe_name)
collapse_underscores(s) ==
    IF Len(s) < 2 THEN s
    ELSE IF s[1] = "_" /\ s[2] = "_" THEN collapse_underscores(Tail(s))
    ELSE <<s[1]>> \o collapse_underscores(Tail(s))

RECURSIVE lstrip(_, _)
lstrip(s, c) == IF s # <<>> /\ s[1] = c THEN lstrip(Tail(s), c) ELSE s

RECURSIVE rstrip(_, _)
rstrip(s, c) ==
    IF s # <<>> /\ s[Len(s)] = c THEN rstrip(SubSeq(s, 1, Len(s) - 1), c) ELSE s

\* variant: leading and trailing underscores stay
strip_nothing(s) == s

\* safe_name.strip("_")
strip_underscores(s) == rstrip(lstrip(s, "_"), "_")

DOT_PDF == <<".", "p", "d", "f">>

\* sanitize_filename
sanitize_filename(filename) ==
    LET decoded   == unquote(filename)
        name      == basename(decoded)
        parts     == splitext(name)
        base_name == parts[1]
        extension == IF parts[2] # DOT_PDF THEN DOT_PDF ELSE parts[2]
        safe_name == strip_underscores(collapse_underscores(replace_unsafe(base_name)))
    IN  IF safe_name = <<>> THEN <<>>
        ELSE str_lower(safe_name) \o str_lower(extension)

\* contains_uppercase
contains_uppercase(text) == \E i \in DOMAIN text : IsUpper(text[i])

----------------------------------------------------------------------------
(* urllib.parse.urlparse(pdf_url).path *)

\* the characters a URL scheme may hold: letters, digits, "+", "-", "."
IsSchemeChar(c) == IsAlnum(c) \/ c \in {"+", "-", "."}

\* urlsplit, first step: a leading "scheme:" is split off; <<scheme, rest>>
split_scheme(url) ==
    LET i == Find(url, ":")
    IN  IF i > 1 /\ (IsUpper(url[1]) \/ IsLower(url[1]))
           /\ \A k \in 1..(i - 1) : IsSchemeChar(url[k])
        THEN <<str_lower(SubSeq(url, 1, i - 1)), SubSeq(url, i + 1, Len(url))>>
        ELSE <<<<>>, url>>

\* urlsplit, second step (_splitnetloc): after "//" the network location runs to
\* the first "/", "?" or "#"; what is left starts there
strip_netloc(url) ==
    IF Len(url) >= 2 /\ url[1] = "/" /\ url[2] = "/"
    THEN SubSeq(url, FindAny(url, {"/", "?", "#"}, 3), Len(url))
    ELSE url

\* urlsplit, third step: the fragment (after the first "#") and then the query
\* (after the first "?") are cut off
strip_query_fragment(url) ==
    LET noFragment == SubSeq(url, 1, FindAny(url, {"#"}, 1) - 1)
    IN  SubSeq(noFragment, 1, FindAny(noFragment, {"?"}, 1) - 1)

\* the schemes of urllib.parse.uses_params that the modelled URLs can have
USES_PARAMS == { <<>>, <<"h","t","t","p">>, <<"h","t","t","p","s">> }

\* urlparse's _splitparams: the parameters (after the first ";" of the last path
\* segment) are cut off
strip_params(url) ==
    LET i == FindAny(url, {";"}, RFind(url, "/") + 1)
    IN  SubSeq(url, 1, i - 1)

\* urllib.parse.urlparse(pdf_url).path
urlparse_path(pdf_url) ==
    LET s    == split_scheme(pdf_url)
        path == strip_query_fragment(strip_netloc(s[2]))
    IN  IF s[1] \in USES_PARAMS THEN strip_params(path) ELSE path

----------------------------------------------------------------------------
(* Files *)

\* what fitz.open finds in a file: a document with pages, a document with no
\* page, or nothing it can open
Docs == {"pages", "zero", "unopenable"}

\* a file's content: whether the whole body was written, and what fitz would
\* find in it
Contents == [complete : BOOLEAN, doc : Docs]

\* variant: the existence test never finds the file
os_path_exists_never(dir, path) == FALSE

\* os.path.exists(save_path), save_path = os.path.join(save_directory, name)
os_path_exists(dir, path) == path \in DOMAIN dir

\* variant: a body that did not arrive whole leaves no file
write_chunks_atomic(dir, path, content) ==
    IF content.complete THEN (path :> content) @@ dir ELSE dir

\* open(save_path, "wb") and the chunks written before the stream ended or failed
write_chunks(dir, path, content) == (path :> content) @@ dir

URL_A == <<"h","t","t","p","s",":","/","/","x","/","A",".","p","d","f">>
URL_a_query == <<"h","t","t","p","s",":","/","/","x","/","d","/","a",".","P","D","F","?","v","=","2">>
URL_symbols == <<"h","t","t","p","s",":","/","/","x","/","_","_","_",".","p","d","f">>
URL_b == <<"h","t","t","p","s",":","/","/","x","/","b","%","2","0","c",".","t","x","t">>

\* the links a response can hold
URLS == {URL_A, URL_a_query, URL_symbols, URL_b}

\* sanitize_filename(raw_filename) of each of these links
SAFE_FILENAMES ==
    [u \in URLS |-> sanitize_filename(basename(urlparse_path(u)))]

\* what the network and the file system do to one download_pdf_file call:
\* where it fails (if it does) and what the body written to disk holds
Envs ==
    [at : {"makedirs", "get", "status", "open"}, doc : {"unopenable"}]
    \cup [at : {"stream", "write", "nowhere"}, doc : Docs]

\* the result of a call: the directory afterwards, whether a GET request was
\* issued, whether an exception left the function, which path through the
\* function was taken, and the save path it computed (empty before it did)
Result(dir, req, raised, outcome, path) ==
    [disk |-> dir, req |-> req, raised |-> raised, outcome |-> outcome, path |-> path]

\* os.makedirs(save_directory, exist_ok=True) raises only when it has to create
\* the directory and cannot; a directory that holds a file exists
makedirs_raises(dir, env) == env.at = "makedirs" /\ DOMAIN dir = {}

\* download_pdf_file(pdf_url, save_directory) under env
download_pdf_file(pdf_url, dir, env) ==
    LET raw_filename  == basename(urlparse_path(pdf_url))
        safe_filename == IF pdf_url \in DOMAIN safe_names
                         THEN safe_names[pdf_url]
                         ELSE sanitize_filename(raw_filename)
        save_path     == safe_filename
        partial       == [complete |-> FALSE, doc |-> env.doc]
        whole         == [complete |-> TRUE, doc |-> env.doc]
    IN  IF makedirs_raises(dir, env) THEN Result(dir, FALSE, TRUE, "makedirs_error", <<>>)
        ELSE IF safe_filename = <<>> THEN Result(dir, FALSE, FALSE, "skip_invalid", <<>>)
        ELSE IF os_path_exists(dir, save_path)
             THEN Result(dir, FALSE, FALSE, "skip_exists", save_path)
        ELSE CASE env.at = "get"    -> Result(dir, TRUE, FALSE, "request_error", save_path)
               [] env.at = "status" -> Result(dir, TRUE, FALSE, "http_error", save_path)
               [] env.at = "open"   -> Result(dir, TRUE, TRUE, "open_error", save_path)
               [] env.at = "stream" ->
                    Result(write_chunks(dir, save_path, partial), TRUE, FALSE,
                           "stream_error", save_path)
               [] env.at = "write"  ->
                    Result(write_chunks(dir, save_path, partial), TRUE, TRUE,
                           "write_error", save_path)
               [] OTHER             ->
                    Result(write_chunks(dir, save_path, whole), TRUE, FALSE,
                           "downloaded", save_path)

\* the empty directory
EmptyDir == << >>

----------------------------------------------------------------------------
(* The rest of the pipeline *)

\* the suffix main passes to list_files_with_extension
PDF_EXTENSION == DOT_PDF

\* list_files_with_extension(directory, extension): the names in the directory
\* that end with the extension
list_files_with_extension(dir, extension) ==
    { f \in DOMAIN dir : endswith(f, extension) }

\* variant: the page count is not looked at
is_valid_pdf_opens(content) == content.doc # "unopenable"

\* is_valid_pdf: fitz.open raises RuntimeError (caught, False), or the document
\* has no page (False), or it is valid
is_valid_pdf(content) ==
    CASE content.doc = "unopenable" -> FALSE
      [] content.doc = "zero"       -> FALSE
      [] OTHER                      -> TRUE

\* delete_file, when os.remove succeeds: the file is gone if it was there
delete_file(dir, path) ==
    IF os_path_exists(dir, path)
    THEN [f \in DOMAIN dir \ {path} |-> dir[f]]
    ELSE dir

\* an item of the response's "items" list, with or without a "link"
Item(has_link, link) == [has_link |-> has_link, link |-> link]

\* extract_pdf_urls_from_json: json.loads raises on text that is not JSON,
\* data.get raises on JSON that is not an object, "items" defaults to [];
\* the links of the items that have one, in order
extract_pdf_urls_from_json(response) ==
    IF response.kind # "object" THEN [raised |-> TRUE, urls |-> <<>>]
    ELSE LET items  == IF response.has_items THEN response.items ELSE <<>>
             linked == SelectSeq(items, LAMBDA item : item.has_link)
         IN  [raised |-> FALSE, urls |-> [i \in DOMAIN linked |-> linked[i].link]]

\* variant: the outer except does not sleep
page_error_handler_no_delay(page) ==
    [pc |-> "page", page_number |-> page + 1, slept |-> 0]

\* main's outer except: log, sleep, and the for loop goes on to the next page
page_error_handler(page) ==
    [pc |-> "page", page_number |-> page + 1, slept |-> PageDelay]

\* variant: no inner except, the error reaches the outer one
link_error_handler_propagates(page, i) ==
    LET h == page_error_handler(page)
    IN  [pc |-> h.pc, page_number |-> h.page_number, idx |-> i, slept |-> h.slept]

\* main's inner except: sleep, log, and the inner for loop goes on to the next link
link_error_handler(page, i) ==
    [pc |-> "links", page_number |-> page, idx |-> i + 1, slept |-> LinkDelay]

\* what a step reports: the operation, the path it took, whether it issued a GET
\* for a document, whether an exception left the callee, and the delay slept
Event(op, outcome, req, raised, slept) ==
    [op |-> op, outcome |-> outcome, req |-> req, raised |-> raised, slept |-> slept]

NoEvent == Event("none", "none", FALSE, FALSE, 0)

NoResult == Result(EmptyDir, FALSE, FALSE, "none", <<>>)

\* written[name], 0 for a name never written in this run
Count(name) == IF name \in DOMAIN written THEN written[name] ELSE 0

----------------------------------------------------------------------------
(* Inputs of the pipeline *)

NAME_a == <<"a",".","p","d","f">>
NAME_b == <<"b","_","c",".","p","d","f">>
NAME_notes == <<"n",".","t","x","t">>

RECURSIVE SeqsUpTo(_, _)
\* the sequences over S of length at most n
SeqsUpTo(S, n) ==
    IF n = 0 THEN {<<>>}
    ELSE LET shorter == SeqsUpTo(S, n - 1)
         IN  shorter \cup { Append(q, x) : q \in shorter, x \in S }

\* the items a response can hold: one per link, and one without a link
Items == { Item(TRUE, u) : u \in URLS } \cup { Item(FALSE, <<>>) }

\* the response bodies fetch_api_data can return
Responses ==
    { [kind |-> k, has_items |-> FALSE, items |-> <<>>] : k \in {"not_json", "not_object", "object"} }
    \cup { [kind |-> "object", has_items |-> TRUE, items |-> q] : q \in SeqsUpTo(Items, MaxItems) }

\* the directories the run can start with: each document name absent or present
\* with any content, and a file that is not a .pdf absent or present
InitialDirs ==
    { d \in UNION { [N -> Contents] : N \in SUBSET {NAME_a, NAME_b, NAME_notes} } :
        NAME_notes \in DOMAIN d => d[NAME_notes] = [complete |-> TRUE, doc |-> "unopenable"] }

----------------------------------------------------------------------------
(* main *)

Init ==
    /\ pc = "page"
    /\ page_number = 1
    /\ pdf_urls = <<>>
    /\ idx = 1
    /\ disk \in InitialDirs
    /\ pdf_files = {}
    /\ snapshot = EmptyDir
    /\ last = NoEvent
    /\ fetched = <<>>
    /\ calls = <<>>
    /\ written = EmptyDir
    /\ safe_names = SAFE_FILENAMES
    /\ input = <<>>
    /\ out = <<>>
    /\ again = <<>>
    /\ dl = NoResult

harness == <<input, out, again, dl, safe_names>>

\* one iteration of the outer loop up to the inner loop: fetch_api_data raises,
\* or extract_pdf_urls_from_json raises, or the links are extracted
FetchPage ==
    /\ pc = "page"
    /\ page_number <= LastPage
    /\ fetched' = Append(fetched, page_number)
    /\ \/ LET h == page_error_handler(page_number)
          IN  /\ pc' = h.pc
              /\ page_number' = h.page_number
              /\ pdf_urls' = <<>>
              /\ last' = Event("fetch", "fetch_error", FALSE, TRUE, h.slept)
       \/ \E response \in Responses :
            LET x == extract_pdf_urls_from_json(response)
                h == page_error_handler(page_number)
            IN  IF x.raised
                THEN /\ pc' = h.pc
                     /\ page_number' = h.page_number
                     /\ pdf_urls' = <<>>
                     /\ last' = Event("fetch", "parse_error", FALSE, TRUE, h.slept)
                ELSE /\ pc' = "links"
                     /\ page_number' = page_number
                     /\ pdf_urls' = x.urls
                     /\ last' = Event("fetch", "extracted", FALSE, FALSE, 0)
    /\ idx' = 1
    /\ calls' = <<>>
    /\ UNCHANGED <<disk, pdf_files, snapshot, written, harness>>

\* one iteration of the inner loop: download_pdf_file, and the inner except
\* when it raises
DownloadLink ==
    /\ pc = "links"
    /\ idx <= Len(pdf_urls)
    /\ \E env \in Envs :
         LET r == download_pdf_file(pdf_urls[idx], disk, env)
             h == link_error_handler(page_number, idx)
         IN  /\ disk' = r.disk
             /\ written' = IF r.outcome = "downloaded"
                           THEN (r.path :> (Count(r.path) + 1)) @@ written
                           ELSE written
             /\ IF r.raised
                THEN /\ pc' = h.pc
                     /\ page_number' = h.page_number
                     /\ idx' = h.idx
                     /\ last' = Event("download", r.outcome, r.req, TRUE, h.slept)
                ELSE /\ pc' = "links"
                     /\ page_number' = page_number
                     /\ idx' = idx + 1
                     /\ last' = Event("download", r.outcome, r.req, FALSE, 0)
    /\ calls' = Append(calls, pdf_urls[idx])
    /\ UNCHANGED <<pdf_urls, pdf_files, snapshot, fetched, harness>>

\* the inner loop is exhausted: the outer loop goes on to the next page
\* (pdf_urls is not read again before the next page assigns it)
EndPage ==
    /\ pc = "links"
    /\ idx > Len(pdf_urls)
    /\ pc' = "page"
    /\ page_number' = page_number + 1
    /\ pdf_urls' = <<>>
    /\ idx' = 1
    /\ calls' = <<>>
    /\ last' = Event("end_page", "none", FALSE, FALSE, 0)
    /\ UNCHANGED <<disk, pdf_files, snapshot, fetched, written, harness>>

\* the outer loop is exhausted: the .pdf files are listed
ListFiles ==
    /\ pc = "page"
    /\ page_number > LastPage
    /\ pdf_files' = list_files_with_extension(disk, PDF_EXTENSION)
    /\ snapshot' = disk
    /\ pc' = "validate"
    /\ last' = Event("list", "none", FALSE, FALSE, 0)
    /\ UNCHANGED <<page_number, pdf_urls, idx, disk, fetched, calls, written, harness>>

\* one iteration of the validation loop (the listing's order is the file
\* system's, so any file not visited yet may be next): an invalid file is
\* deleted, and os.remove may raise, which nothing catches
ValidateFile ==
    /\ pc = "validate"
    /\ \E pdf_file \in pdf_files :
         /\ pdf_files' = pdf_files \ {pdf_file}
         /\ IF is_valid_pdf(disk[pdf_file])
            THEN /\ disk' = disk
                 /\ pc' = "validate"
                 /\ last' = Event("validate", "kept", FALSE, FALSE, 0)
            ELSE \/ /\ disk' = delete_file(disk, pdf_file)
                    /\ pc' = "validate"
                    /\ last' = Event("validate", "removed", FALSE, FALSE, 0)
                 \/ /\ disk' = disk
                    /\ pc' = "crashed"
                    /\ last' = Event("validate", "remove_error", FALSE, TRUE, 0)
    /\ UNCHANGED <<page_number, pdf_urls, idx, snapshot, fetched, calls, written, harness>>

\* the validation loop is exhausted: main returns
Finish ==
    /\ pc = "validate"
    /\ pdf_files = {}
    /\ pc' = "done"
    /\ last' = Event("return", "none", FALSE, FALSE, 0)
    /\ UNCHANGED <<page_number, pdf_urls, idx, disk, pdf_files, snapshot, fetched,
                   calls, written, harness>>

Next == FetchPage \/ DownloadLink \/ EndPage \/ ListFiles \/ ValidateFile \/ Finish

Spec == Init /\ [][Next]_vars

----------------------------------------------------------------------------
(* Unit harness: sanitize_filename and download_pdf_file on every string    *)
(* built from at most MaxPieces pieces                                     *)

\* what the strings under test are built from: a lowercase letter, an
\* uppercase letter and a digit (both hexadecimal digits), the underscore,
\* other symbols, the separators, a percent sign, an escaped "/", and the
\* extension in both cases
Pieces ==
    { <<"p">>, <<"F">>, <<"2">>, <<"_">>, <<"-">>, <<".">>, <<"/">>, <<"?">>, <<"%">>,
      <<"%", "2", "F">>, <<".", "p", "d", "f">>, <<".", "P", "D", "F">> }

RECURSIVE Built(_)
\* the strings built from at most n pieces
Built(n) ==
    IF n = 0 THEN {<<>>}
    ELSE LET shorter == Built(n - 1)
         IN  shorter \cup { q \o piece : q \in shorter, piece \in Pieces }

Inputs == Built(MaxPieces)

NAME_other == <<"o", ".", "p", "d", "f">>

\* the directories a call under test can find: empty, or holding one file,
\* at the call's own save path or elsewhere
HarnessDirs(url) ==
    LET own == sanitize_filename(basename(urlparse_path(url)))
    IN  {EmptyDir, (NAME_other :> [complete |-> TRUE, doc |-> "pages"])}
        \cup { (name :> content) :
                 name \in {own} \ {<<>>},
                 content \in { [complete |-> TRUE, doc |-> "pages"],
                               [complete |-> FALSE, doc |-> "unopenable"] } }

InitSan ==
    /\ pc = "input"
    /\ input \in Inputs
    /\ out = <<>>
    /\ again = <<>>
    /\ dl = NoResult
    /\ page_number = 1
    /\ pdf_urls = <<>>
    /\ idx = 1
    /\ disk = EmptyDir
    /\ pdf_files = {}
    /\ snapshot = EmptyDir
    /\ last = NoEvent
    /\ fetched = <<>>
    /\ calls = <<>>
    /\ written = EmptyDir
    /\ safe_names = EmptyDir

pipeline == <<page_number, pdf_urls, idx, pdf_files, last, fetched, calls, written,
              safe_names>>

\* sanitize_filename(input)
Sanitize ==
    /\ pc = "input"
    /\ out' = sanitize_filename(input)
    /\ pc' = "sanitized"
    /\ UNCHANGED <<input, again, dl, disk, snapshot, pipeline>>

\* sanitize_filename applied to its own result
SanitizeAgain ==
    /\ pc = "sanitized"
    /\ again' = sanitize_filename(out)
    /\ pc' = "resanitized"
    /\ UNCHANGED <<input, out, dl, disk, snapshot, pipeline>>

\* download_pdf_file(input, dir) for a directory and an environment; snapshot
\* keeps the directory as the call found it, disk is the directory afterwards
CallDownload ==
    /\ pc = "input"
    /\ \E dir \in HarnessDirs(input), env \in Envs :
         /\ snapshot' = dir
         /\ dl' = download_pdf_file(input, dir, env)
         /\ disk' = dl'.disk
    /\ pc' = "called"
    /\ UNCHANGED <<input, out, again, pipeline>>

NextSan == Sanitize \/ SanitizeAgain \/ CallDownload

SpecSan == InitSan /\ [][NextSan]_vars

----------------------------------------------------------------------------
(* Properties of main (checked under Spec) *)

\* the save path of the link of the last download_pdf_file call of this page
LastPath == safe_names[calls[Len(calls)]]

\* the save path of the link the inner loop is about to pass to download_pdf_file
NextPath == safe_names[pdf_urls[idx]]

\* the inner loop has a link left, so the next step is a download_pdf_file call
AtLink == pc = "links" /\ idx <= Len(pdf_urls)

FirstPages(n) == [k \in 1..n |-> k]

\* C1: whatever fails, the pages 1..5 are each fetched exactly once in
\* increasing order, and every link extracted from a page gets exactly one
\* download_pdf_file call, in list order; no failure skips or repeats a page
\* or a link.
C1_FixedIterationPlan ==
    /\ fetched = FirstPages(Len(fetched))
    /\ Len(fetched) = IF pc = "links" THEN page_number ELSE page_number - 1
    /\ pc \in {"validate", "done", "crashed"} => fetched = FirstPages(LastPage)
    /\ pc = "links" => /\ idx <= Len(pdf_urls) + 1
                       /\ calls = SubSeq(pdf_urls, 1, idx - 1)
    /\ pc # "links" => (pdf_urls = <<>> /\ calls = <<>>)

\* a download raised on the first of two links of page 3, and the loop stands
\* at the second link
C1_Witness ==
    /\ pc = "links"
    /\ page_number = 3
    /\ Len(pdf_urls) = 2
    /\ idx = 2
    /\ last.op = "download"
    /\ last.raised

\* C2: no error is fatal: main never ends with an uncaught error, whatever
\* fails in the pagination phase or in the validation phase.
C2_NoFatalError == pc # "crashed"

\* what the claim calls invalid: unopenable, or no page
Invalid(content) == content.doc \in {"unopenable", "zero"}

\* C5: when main is done, every .pdf file that was in the directory when
\* validation started and is unopenable or has no page is gone, every other
\* one is still there unchanged; and from the start of validation on, no file
\* is created or replaced, and only invalid .pdf files are removed.
C5_ValidationOutcome ==
    /\ pc = "done" =>
         \A f \in DOMAIN snapshot :
            endswith(f, DOT_PDF) =>
               IF Invalid(snapshot[f]) THEN f \notin DOMAIN disk
               ELSE f \in DOMAIN disk /\ disk[f] = snapshot[f]
    /\ pc \in {"validate", "done", "crashed"} =>
         /\ \A f \in DOMAIN disk : f \in DOMAIN snapshot /\ disk[f] = snapshot[f]
         /\ \A f \in DOMAIN snapshot \ DOMAIN disk :
               endswith(f, DOT_PDF) /\ Invalid(snapshot[f])

\* main is done; a zero-page file and an unopenable file were removed and a
\* valid file and a file that is no .pdf were kept
C5_Witness ==
    /\ pc = "done"
    /\ DOMAIN snapshot = {NAME_a, NAME_b, NAME_notes}
    /\ snapshot[NAME_a].doc = "zero"
    /\ snapshot[NAME_b].doc = "pages"
    /\ DOMAIN disk = {NAME_b, NAME_notes}

\* C6: once a download for a file name has succeeded, a later link with the
\* same sanitized file name is skipped: no request, the directory unchanged;
\* so at most one download is written per file name in a run.
C6_DedupByFilename ==
    /\ [](\A name \in DOMAIN written : written[name] <= 1)
    /\ [][(AtLink /\ Count(NextPath) >= 1) =>
            /\ last'.outcome = "skip_exists"
            /\ ~last'.req
            /\ disk' = disk]_vars

\* the first link of a page was skipped because a download of an earlier page
\* had written its file
C6_Witness ==
    /\ pc = "links"
    /\ Len(calls) = 1
    /\ last.outcome = "skip_exists"
    /\ Count(LastPath) = 1

PageFailures == {"fetch_error", "parse_error"}
LinkRequestFailures == {"request_error", "http_error", "stream_error"}
LinkOtherFailures == {"makedirs_error", "open_error", "write_error"}

\* C7 as stated: every failed page is followed by a delay of 10, every failed
\* link by a delay of 30, whatever the kind of the error.
C7_DelayAfterEveryError ==
    /\ (last.op = "fetch" /\ last.outcome \in PageFailures) => last.slept = PageDelay
    /\ (last.op = "download" /\ last.outcome \in LinkRequestFailures \cup LinkOtherFailures)
          => last.slept = LinkDelay

\* C7 as amended: an exception of fetch_api_data or extract_pdf_urls_from_json
\* is followed by a delay of 10 and the next page; an exception that leaves
\* download_pdf_file (a file-system error) is followed by a delay of 30 and the
\* next link; a request failure of a download (transport, status, stream) is
\* caught inside download_pdf_file and followed by the next link with no delay.
C7_DelayAfterRaisedError ==
    /\ (last.op = "fetch" /\ last.outcome \in PageFailures) =>
          /\ last.slept = PageDelay
          /\ pc = "page"
          /\ page_number = fetched[Len(fetched)] + 1
    /\ (last.op = "download" /\ last.outcome \in LinkOtherFailures) =>
          /\ last.raised
          /\ last.slept = LinkDelay
          /\ pc = "links"
          /\ idx = Len(calls) + 1
    /\ (last.op = "download" /\ last.outcome \in LinkRequestFailures) =>
          /\ ~last.raised
          /\ last.slept = 0
          /\ pc = "links"
          /\ idx = Len(calls) + 1

\* the metadata response of page 2 did not parse: the delay was slept and
\* page 3 is next
C7_Witness ==
    /\ last.op = "fetch"
    /\ last.outcome = "parse_error"
    /\ last.slept = PageDelay
    /\ page_number = 3

\* C10: the pagination phase never removes a file; after a download that
\* failed mid-stream the truncated file is at the save path, and a later link
\* with that file name is skipped without a request; after a non-success
\* status no file is at the save path.
C10_NoCleanup ==
    /\ [][(pc \in {"page", "links"}) => (DOMAIN disk \subseteq DOMAIN disk')]_vars
    /\ []((last.op = "download" /\ last.outcome = "stream_error") =>
            /\ LastPath \in DOMAIN disk
            /\ ~disk[LastPath].complete)
    /\ []((last.op = "download" /\ last.outcome = "http_error") =>
            LastPath \notin DOMAIN disk)
    /\ [][(AtLink /\ NextPath \in DOMAIN disk /\ ~disk[NextPath].complete) =>
            /\ last'.outcome = "skip_exists"
            /\ ~last'.req
            /\ disk' = disk]_vars

\* a link was skipped because a truncated file is at its save path, and no
\* download completed for that name in this run
C10_Witness ==
    /\ pc = "links"
    /\ calls # <<>>
    /\ last.outcome = "skip_exists"
    /\ ~disk[LastPath].complete
    /\ Count(LastPath) = 0
    /\ Len(fetched) >= 2

----------------------------------------------------------------------------
(* Properties of sanitize_filename and download_pdf_file (checked under     *)
(* SpecSan)                                                                *)

\* the path download_pdf_file passes to sanitize_filename for the string under test
RawFilename == basename(urlparse_path(input))

\* the decoded base name, without extension, of a file name
DecodedBase(filename) == splitext(basename(unquote(filename)))[1]

NoAlnum(s) == \A i \in DOMAIN s : ~IsAlnum(s[i])

\* C3: when a file is at the save path, download_pdf_file issues no request
\* and leaves the directory, that file included, as it was.
C3_ExistingFileUntouched ==
    (pc = "called" /\ sanitize_filename(RawFilename) \in DOMAIN snapshot) =>
        /\ ~dl.req
        /\ ~dl.raised
        /\ disk = snapshot

\* the save path f.pdf held a truncated file and download_pdf_file was called
\* for F.PDF
C3_Witness ==
    /\ pc = "called"
    /\ input = <<"F", ".", "P", "D", "F">>
    /\ DOMAIN snapshot = {<<"f", ".", "p", "d", "f">>}
    /\ ~snapshot[<<"f", ".", "p", "d", "f">>].complete
    /\ dl.outcome = "skip_exists"

MatchesPattern(s) ==
    /\ Len(s) > Len(DOT_PDF)
    /\ endswith(s, DOT_PDF)
    /\ \A i \in 1..(Len(s) - Len(DOT_PDF)) : IsLower(s[i]) \/ IsDigit(s[i]) \/ s[i] = "_"

\* C8: sanitize_filename returns the empty string or a name matching
\* ^[a-z0-9_]+\.pdf$, so a file download_pdf_file writes has no uppercase
\* character in its name.
C8_OutputFormat ==
    /\ pc = "sanitized" => (out = <<>> \/ MatchesPattern(out))
    /\ pc = "called" =>
          \A f \in DOMAIN disk \ DOMAIN snapshot :
              MatchesPattern(f) /\ ~contains_uppercase(f)

\* F2.PDF was sanitized to f2.pdf
C8_Witness ==
    /\ pc = "sanitized"
    /\ input = <<"F", "2", ".", "P", "D", "F">>
    /\ out = <<"f", "2", ".", "p", "d", "f">>

\* C9: sanitize_filename applied to its own result returns that result, the
\* empty string included.
C9_Idempotent == pc = "resanitized" => again = out

\* F.p was sanitized to f.pdf, and f.pdf to itself
C9_Witness ==
    /\ pc = "resanitized"
    /\ input = <<"F", ".", "p">>
    /\ out = <<"f", ".", "p", "d", "f">>
    /\ again = out

====
